---------------------------- MODULE Spec2Model ----------------------------
(***************************************************************************)
(* The measurement harness of the low-level-performance book:              *)
(*   - ns_per_iteration     (book_magics.py), the clock calibrator,        *)
(*   - MEASUREMENTS         (book_linux.py),  the counter catalog,         *)
(*   - get_measurements     (book_linux.py / book_magics.py), the counter  *)
(*                          aggregator and its not-available stand-in,     *)
(*   - measure_peak_memory  (book_common.py),                              *)
(*   - _benchmark_lines, compare_timing, compare_throughput and            *)
(*     _generate_benchmark_table (book_magics.py), the runner.             *)
(*                                                                         *)
(* The harness is single threaded.  A call is a walk of pc through the     *)
(* called function's statements; an exception that nothing catches ends    *)
(* the walk in pc = "raised".  The snippet, the timer, the counter         *)
(* facility and the allocation tracker are the environment: what they      *)
(* answer is chosen with \E where the code asks them.                      *)
(***************************************************************************)
EXTENDS Integers, Sequences, FiniteSets, TLC

-----------------------------------------------------------------------------
(* Bounds of the model *)

\* most lines of a notebook cell
MaxLines == 2
\* most entries of the kinds list of a direct get_measurements call
MaxKinds == 3
\* the counter facility reports counts in 0..MaxCount
MaxCount == 2
\* the allocation tracker reports peaks in 0..MaxPeak
MaxPeak == 1

-----------------------------------------------------------------------------
(* Program constants *)

\* timeit(..., number=10, ...) / 10: the executions of the probe
ProbeNumber == 10
\* iterations = 10 for a slow snippet
SlowIterations == 10
\* 10_000_000 ns: the measurement window
WindowNs == 10000000
\* the floor of the repetition count
MinIterations == 100
\* units, factor = ("microseconds", 1_000)
Factor == 1000
\* 1_000_000_000.0 nanoseconds in a second
NsPerSecond == 1000000000

-----------------------------------------------------------------------------
(* Values *)

Max(a, b) == IF a >= b THEN a ELSE b

Range(s) == {s[k] : k \in 1..Len(s)}

SeqsUpTo(S, n) == UNION {[1..k -> S] : k \in 0..n}

\* every order a set can be enumerated in
Perms(S) == {f \in [1..Cardinality(S) -> S] : \A a, b \in 1..Cardinality(S) : f[a] = f[b] => a = b}

\* round(x, 0) of the exact quotient num/den, ties to even as Python's round
RoundHalfEven(num, den) ==
    LET q == num \div den
        r == num % den
    IN  IF 2 * r < den THEN q
        ELSE IF 2 * r > den THEN q + 1
        ELSE IF q % 2 = 0 THEN q ELSE q + 1

\* A cell of a result row is an int, a float with one decimal (held in
\* tenths) or a text; one record shape for all so that any two compare.
IntVal(n) == [t |-> "int", n |-> n]
TenthsVal(n) == [t |-> "tenths", n |-> n]
NotAvailable == [t |-> "N/A, Linux only", n |-> 0]


-----------------------------------------------------------------------------
(* The counter catalog *)

\* MEASUREMENTS: kind -> (raw counters in declared order, derivation).
\* "percent" is lambda refs, misses: round((misses / refs) * 100, 1),
\* "identity" is lambda x: x, "sum" is lambda double, single: double + single.
MEASUREMENTS ==
    [instructions |-> [events |-> <<"INSTRUCTIONS">>, post |-> "identity"],
     memory_cache_miss |-> [events |-> <<"CACHE_REFERENCES", "CACHE_MISSES">>, post |-> "percent"],
     memory_cache_refs |-> [events |-> <<"CACHE_REFERENCES">>, post |-> "identity"],
     l1_memory_cache_miss |-> [events |-> <<"L1D_READ_ACCESS", "L1D_READ_MISS">>, post |-> "percent"],
     l1_memory_cache_refs |-> [events |-> <<"L1D_READ_ACCESS">>, post |-> "identity"],
     ll_memory_cache_miss |-> [events |-> <<"LL_READ_ACCESS", "LL_READ_MISS">>, post |-> "percent"],
     ll_memory_cache_refs |-> [events |-> <<"LL_READ_ACCESS">>, post |-> "identity"],
     branch_mispredictions |-> [events |-> <<"BRANCH_INSTRUCTIONS", "BRANCH_MISSES">>, post |-> "percent"],
     branches |-> [events |-> <<"BRANCH_INSTRUCTIONS">>, post |-> "identity"],
     simd_256bit |-> [events |-> <<"RAW_10C7", "RAW_20C7">>, post |-> "sum"],
     simd_128bit |-> [events |-> <<"RAW_4C7", "RAW_8C7">>, post |-> "sum"],
     peak_memory |-> [events |-> <<>>, post |-> "identity"]]

\* MEASUREMENT_TITLES: kind -> column title; arrow says which of the two
\* arrows (lower is better, higher is better) the title carries, if any.
MEASUREMENT_TITLES ==
    [instructions |-> [text |-> "CPU instructions", arrow |-> "none"],
     memory_cache_miss |-> [text |-> "L3 memory cache miss %", arrow |-> "lower"],
     memory_cache_refs |-> [text |-> "L3 memory cache references", arrow |-> "lower"],
     l1_memory_cache_miss |-> [text |-> "L1 memory cache miss %", arrow |-> "lower"],
     l1_memory_cache_refs |-> [text |-> "L1 memory cache references", arrow |-> "lower"],
     ll_memory_cache_miss |-> [text |-> "LL memory cache miss %", arrow |-> "lower"],
     ll_memory_cache_refs |-> [text |-> "LL memory cache references", arrow |-> "lower"],
     branch_mispredictions |-> [text |-> "Branch misprediction %", arrow |-> "lower"],
     branches |-> [text |-> "Branch instructions", arrow |-> "none"],
     simd_256bit |-> [text |-> "256-bit SIMD instructions", arrow |-> "none"],
     simd_128bit |-> [text |-> "128-bit SIMD instructions", arrow |-> "none"],
     peak_memory |-> [text |-> "Peak allocated memory (bytes)", arrow |-> "lower"]]

\* events, _ = MEASUREMENTS[m]
EventsOf(m) == MEASUREMENTS[m].events

\* whether a derivation raises on these values: misses / refs with refs = 0,
\* or a call with the wrong number of arguments
PostProcessRaises(m, args) ==
    LET post == MEASUREMENTS[m].post
    IN  CASE post = "identity" -> Len(args) # 1
          [] post = "percent" -> Len(args) # 2 \/ args[1] = 0
          [] post = "sum" -> Len(args) # 2

\* post_process(*args): the derivation of kind m applied to args
PostProcess(m, args) ==
    LET post == MEASUREMENTS[m].post
    IN  CASE post = "identity" -> IntVal(args[1])
          [] post = "percent" -> TenthsVal(RoundHalfEven(args[2] * 1000, args[1]))
          [] post = "sum" -> IntVal(args[1] + args[2])

-----------------------------------------------------------------------------
(* Text: a string is a sequence of characters *)

\* str.splitlines(): cut at line ends, no empty last line
RECURSIVE SplitLinesFrom(_, _, _)
SplitLinesFrom(s, cur, acc) ==
    IF s = <<>> THEN (IF cur = <<>> THEN acc ELSE Append(acc, cur))
    ELSE IF Head(s) = "\n" THEN SplitLinesFrom(Tail(s), <<>>, Append(acc, cur))
    ELSE SplitLinesFrom(Tail(s), Append(cur, Head(s)), acc)

SplitLines(s) == SplitLinesFrom(s, <<>>, <<>>)

\* str.strip(): drop the white space at both ends
RECURSIVE LStrip(_)
LStrip(s) == IF s # <<>> /\ Head(s) = " " THEN LStrip(Tail(s)) ELSE s

RECURSIVE RStrip(_)
RStrip(s) == IF s # <<>> /\ s[Len(s)] = " " THEN RStrip(SubSeq(s, 1, Len(s) - 1)) ELSE s

Strip(s) == RStrip(LStrip(s))

\* the backquote character
Backquote == "<backquote>"

\* the f-string that puts the line between two backquotes
Label(l) == <<Backquote>> \o l \o <<Backquote>>

\* [m for m in arguments.measure.split(",") if m], on the fields split gives
KeepNonEmpty(fields) == SelectSeq(fields, LAMBDA m : m # "")

-----------------------------------------------------------------------------
(* Inputs *)

\* the lines cells are written from: a blank one and two snippets
LineTexts == {<<" ">>, <<"x">>, <<" ", "y", " ">>}

RECURSIVE JoinLines(_)
JoinLines(ls) ==
    IF ls = <<>> THEN <<>>
    ELSE IF Len(ls) = 1 THEN ls[1]
    ELSE ls[1] \o <<"\n">> \o JoinLines(Tail(ls))

Cells == {JoinLines(ls) : ls \in SeqsUpTo(LineTexts, MaxLines)}

\* --measure, as the fields between its commas ("" is the default)
MeasureArgs ==
    {<<"">>,
     <<"instructions">>,
     <<"memory_cache_miss", "", "memory_cache_refs">>,
     <<"peak_memory", "branches">>,
     <<"bogus">>,
     <<"peak_memory", "bogus">>}

\* kinds of a direct get_measurements call; "bogus" is not in the catalog
RequestKinds == {"instructions", "memory_cache_miss", "memory_cache_refs", "peak_memory", "bogus"}

Registered == DOMAIN MEASUREMENTS

Magics == {"compare_timing", "compare_throughput"}

VARIABLES
    platform,       \* "linux" | "other": sys.platform, read at import
    entry,          \* the function the caller calls
    cell,           \* the cell text of a magic call
    measureArg,     \* the --measure fields of a magic call
    preJIT,         \* numba_config.DISABLE_JIT before the call
    DISABLE_JIT,    \* numba_config.DISABLE_JIT
    gcEnabled,      \* gc.isenabled()
    tracing,        \* tracemalloc.is_tracing()
    pc,             \* the statement control is at
    error,          \* the exception in flight, "none" if none
    raisedIn,       \* the function that raised it
    measurements,   \* the kinds list (measurement_keys in get_measurements)
    lines,          \* cell.splitlines()
    lineIdx,        \* the line the runner's loop is at
    line,           \* the snippet
    result,         \* the runner's rows
    blReturned,     \* whether _benchmark_lines returned its rows
    estimated_ns, iterations, nsResult,     \* ns_per_iteration's locals
    probeTotal, fullTotal, fullExecs,       \* what its two timeit calls saw and did
    event_list, event_counts, keyIdx, gmResult,  \* get_measurements' locals
    observed,       \* what the counter facility observed, per raw counter
    measureLog,     \* the counter lists handed to measure in this get_measurements call
    deriveLog,      \* the derivations invoked in this call: kind and arguments
    peakLog,        \* the peak-memory measurements of this call: entry and peak
    gmExecs,        \* snippet executions of this get_measurements call
    execs,          \* snippet executions, per line
    execModes,      \* the values DISABLE_JIT had at the snippet's executions
    callLog,        \* calls and returns of the calibrator and the aggregator
    nsRets, gmRets, \* what they returned, per line
    rendered        \* what was handed to display_table

globals == <<DISABLE_JIT, gcEnabled, tracing>>
inputs == <<platform, entry, cell, measureArg, preJIT>>
control == <<pc, error, raisedIn>>
runnerLocals == <<measurements, lines, lineIdx, line, result, blReturned>>
nsLocals == <<estimated_ns, iterations, nsResult, probeTotal, fullTotal, fullExecs>>
gmLocals == <<event_list, event_counts, keyIdx, gmResult, observed, measureLog, deriveLog, peakLog, gmExecs>>
history == <<execs, execModes, callLog, nsRets, gmRets, rendered>>
vars == <<globals, inputs, control, runnerLocals, nsLocals, gmLocals, history>>

NoTable == [shown |-> FALSE, headers |-> <<>>, rows |-> <<>>, footer |-> <<>>]

\* everything but the inputs, before the first statement
InitRest ==
    /\ DISABLE_JIT = preJIT
    /\ gcEnabled = TRUE
    /\ tracing = FALSE
    /\ error = "none"
    /\ raisedIn = "none"
    /\ lineIdx = 1
    /\ result = <<>>
    /\ blReturned = FALSE
    /\ estimated_ns = 0 /\ iterations = 0 /\ nsResult = 0
    /\ probeTotal = 0 /\ fullTotal = 0 /\ fullExecs = 0
    /\ event_list = <<>> /\ event_counts = <<>> /\ keyIdx = 1 /\ gmResult = <<>>
    /\ observed = <<>> /\ measureLog = <<>> /\ deriveLog = <<>> /\ peakLog = <<>>
    /\ gmExecs = 0
    /\ execModes = {}
    /\ callLog = <<>> /\ nsRets = <<>> /\ gmRets = <<>>
    /\ rendered = NoTable

\* %%compare_timing / %%compare_throughput on a cell
InitMagic ==
    /\ entry \in Magics
    /\ platform \in {"linux", "other"}
    /\ cell \in Cells
    /\ measureArg \in MeasureArgs
    /\ preJIT \in BOOLEAN
    /\ measurements = <<>>
    /\ lines = <<>>
    /\ line = <<>>
    /\ execs = [k \in 1..Len(SplitLines(cell)) |-> 0]
    /\ pc = "start"
    /\ InitRest

\* get_measurements(measurement_keys, "x", local_ns), called directly
InitAggregate ==
    /\ entry = "get_measurements"
    /\ platform \in {"linux", "other"}
    /\ cell = <<"x">>
    /\ measureArg = <<>>
    /\ preJIT = FALSE
    /\ measurements \in SeqsUpTo(RequestKinds, MaxKinds)
    /\ lines = <<cell>>
    /\ line = cell
    /\ execs = <<0>>
    /\ pc = "gm_enter"
    /\ InitRest

\* ns_per_iteration("x", globals), called directly
InitCalibrate ==
    /\ entry = "ns_per_iteration"
    /\ platform \in {"linux", "other"}
    /\ cell = <<"x">>
    /\ measureArg = <<>>
    /\ preJIT = FALSE
    /\ measurements = <<>>
    /\ lines = <<cell>>
    /\ line = cell
    /\ execs = <<0>>
    /\ pc = "ns_probe"
    /\ InitRest

Init == InitMagic \/ InitAggregate \/ InitCalibrate


-----------------------------------------------------------------------------
(* The environment *)

\* A direct call of the calibrator or of the aggregator is explored over the
\* wide sets below; a magic call, which repeats both per snippet, over narrow
\* ones that still reach every branch (estimated_ns = 0, elapsed = 0).
Direct == entry \in {"ns_per_iteration", "get_measurements"}

\* totals perf_counter_ns can report for the 10 executions of the probe:
\* estimated_ns 0, 0, 1, 100, 100000, 100001, 9999999, 10000000, 10000000,
\* 10000001, 20000000
ProbeTotals ==
    IF Direct
    THEN {0, 9, 10, 1000, 1000000, 1000010, 99999999, 100000000, 100000009, 100000010, 200000000}
    ELSE {9, 1000}

\* totals it can report for the full run
FullTotals == IF Direct THEN {0, 7, 3000000, 2000000000} ELSE {7, 3000000}

\* what the counter facility can count for one raw counter
CounterVals == IF Direct THEN 0..MaxCount ELSE {1, 2}

\* what tracemalloc can report as the peak
PeakVals == 0..MaxPeak

\* the execution of a timeit run that a failing snippet fails in
RaiseAt(number) == {1, number}

\* --unit: absent, without a colon, or name:expr with what expr evaluates to
UnitArgs ==
    {[form |-> "None", name |-> <<>>, num_items |-> 0],
     [form |-> "nocolon", name |-> <<>>, num_items |-> 0],
     [form |-> "ok", name |-> <<"Bytes">>, num_items |-> 1],
     [form |-> "ok", name |-> <<"Bytes">>, num_items |-> 2]}

-----------------------------------------------------------------------------
(* Steps shared by the actions *)

\* a runner that catches the exception and goes on to return its rows
RaiseReturningRows(err, fn) ==
    /\ pc' = IF entry = "compare_timing" THEN "timing_post" ELSE "throughput_post"
    /\ error' = err
    /\ raisedIn' = fn

\* an exception leaves fn and nothing catches it
Raise(err, fn) ==
    /\ pc' = "raised"
    /\ error' = err
    /\ raisedIn' = fn

\* the snippet ran n more times, under the execution mode of the moment
Executed(n) ==
    /\ execs' = [execs EXCEPT ![lineIdx] = @ + n]
    /\ execModes' = execModes \cup {DISABLE_JIT}

Logged(fn, ev) == callLog' = Append(callLog, [fn |-> fn, idx |-> lineIdx, ev |-> ev])

-----------------------------------------------------------------------------
(* ns_per_iteration *)

\* the policy with >= for >
IterationsAtLeast(est) ==
    IF est >= WindowNs THEN SlowIterations ELSE Max(WindowNs \div est, MinIterations)

\* iterations = max(10_000_000 // estimated_ns, 100); 10 if estimated_ns > 10_000_000
Iterations(est) ==
    IF est > WindowNs THEN SlowIterations ELSE Max(WindowNs \div est, MinIterations)

\* gc.disable(); estimated_ns = int(timeit(line, number=10) / 10).
\* timeit puts the collector back as it found it, which is disabled.
ns_probe ==
    /\ pc = "ns_probe"
    /\ gcEnabled' = FALSE
    /\ \/ \E j \in RaiseAt(ProbeNumber) :
            /\ Executed(j)
            /\ Raise("SnippetError", "ns_per_iteration")
            /\ UNCHANGED <<probeTotal, estimated_ns>>
       \/ \E t \in ProbeTotals :
            /\ Executed(ProbeNumber)
            /\ probeTotal' = t
            /\ estimated_ns' = t \div ProbeNumber
            /\ pc' = "ns_iterations"
            /\ UNCHANGED <<error, raisedIn>>
    /\ UNCHANGED <<DISABLE_JIT, tracing, inputs, runnerLocals, iterations, nsResult,
                   fullTotal, fullExecs, gmLocals, callLog, nsRets, gmRets, rendered>>

\* the choice of the repetition count; 10_000_000 // 0 raises
ns_iterations ==
    /\ pc = "ns_iterations"
    /\ IF estimated_ns = 0
       THEN /\ Raise("ZeroDivisionError", "ns_per_iteration")
            /\ UNCHANGED iterations
       ELSE /\ iterations' = Iterations(estimated_ns)
            /\ pc' = "ns_full"
            /\ UNCHANGED <<error, raisedIn>>
    /\ UNCHANGED <<globals, inputs, runnerLocals, estimated_ns, nsResult, probeTotal,
                   fullTotal, fullExecs, gmLocals, history>>

\* result = timeit(line, number=iterations) // iterations
ns_full ==
    /\ pc = "ns_full"
    /\ \/ \E j \in RaiseAt(iterations) :
            /\ Executed(j)
            /\ fullExecs' = j
            /\ Raise("SnippetError", "ns_per_iteration")
            /\ UNCHANGED <<fullTotal, nsResult>>
       \/ \E t \in FullTotals :
            /\ Executed(iterations)
            /\ fullExecs' = iterations
            /\ fullTotal' = t
            /\ nsResult' = t \div iterations
            /\ pc' = "ns_return"
            /\ UNCHANGED <<error, raisedIn>>
    /\ UNCHANGED <<globals, inputs, runnerLocals, estimated_ns, iterations, probeTotal,
                   gmLocals, callLog, nsRets, gmRets, rendered>>

\* gc.enable(); return result: the other locals end with the call
ns_return ==
    /\ pc = "ns_return"
    /\ gcEnabled' = TRUE
    /\ nsRets' = Append(nsRets, [idx |-> lineIdx, val |-> nsResult])
    /\ Logged("ns_per_iteration", "return")
    /\ pc' = IF entry = "ns_per_iteration" THEN "done" ELSE "bl_row"
    /\ estimated_ns' = 0 /\ iterations' = 0
    /\ probeTotal' = 0 /\ fullTotal' = 0 /\ fullExecs' = 0
    /\ UNCHANGED <<DISABLE_JIT, tracing, inputs, error, raisedIn, runnerLocals, nsResult,
                   gmLocals, execs, execModes, gmRets, rendered>>


-----------------------------------------------------------------------------
(* measure_peak_memory *)

\* tracemalloc.start(); exec(line, local_ns) raises: stop() is not reached
peak_memory_raises ==
    /\ tracing' = TRUE
    /\ Executed(1)
    /\ gmExecs' = gmExecs + 1
    /\ Raise("SnippetError", "measure_peak_memory")
    /\ UNCHANGED <<gmResult, peakLog, keyIdx>>

\* start(); exec; _, peak = get_traced_memory(); stop(); the caller appends peak
peak_memory_returns(p) ==
    /\ tracing' = FALSE
    /\ Executed(1)
    /\ gmExecs' = gmExecs + 1
    /\ peakLog' = Append(peakLog, [idx |-> keyIdx, peak |-> p])
    /\ gmResult' = Append(gmResult, IntVal(p))
    /\ keyIdx' = keyIdx + 1
    /\ UNCHANGED control

-----------------------------------------------------------------------------
(* get_measurements, on Linux *)

\* event_set after the first loop: the union of the kinds' raw counters
EventSet(keys) == UNION {Range(EventsOf(keys[k])) : k \in 1..Len(keys)}

\* one list entry per kind and raw counter, nothing deduplicated
RECURSIVE EventsPerKind(_)
EventsPerKind(keys) ==
    IF keys = <<>> THEN <<>> ELSE EventsOf(Head(keys)) \o EventsPerKind(Tail(keys))

EventListsPerKind(keys) == {EventsPerKind(keys)}

\* event_list = list(event_set): the set, in any order of enumeration
EventLists(keys) == Perms(EventSet(keys))

\* the counts paired with the events in the opposite order
ZipCountsReversed(el, counters) ==
    [ev \in Range(el) |-> counters[Len(el) + 1 - (CHOOSE k \in 1..Len(el) : el[k] = ev)]]

\* event_counts after "for event, counter in zip(event_list, counters)":
\* a later pair of the same event overwrites an earlier one
ZipCounts(el, counters) ==
    LET n == IF Len(el) <= Len(counters) THEN Len(el) ELSE Len(counters)
        last(ev) == CHOOSE k \in 1..n : el[k] = ev /\ \A k2 \in (k + 1)..n : el[k2] # ev
    IN  [ev \in {el[k] : k \in 1..n} |-> counters[last(ev)]]

\* [event_counts[ev] for ev in events]
GatherArgs(events, counts) == [j \in 1..Len(events) |-> counts[events[j]]]

\* result.insert(0, value)
PrependValue(res, value) == <<value>> \o res

\* result.append(value)
AppendValue(res, value) == Append(res, value)

\* lines 77-85: the lookup of every kind, then the one counter pass
get_measurements_measure ==
    /\ pc = "gm_enter"
    /\ platform = "linux"
    /\ gmResult' = <<>>
    /\ keyIdx' = 1
    /\ deriveLog' = <<>>
    /\ peakLog' = <<>>
    /\ IF \E k \in 1..Len(measurements) : measurements[k] \notin Registered
       THEN /\ Raise("KeyError", "get_measurements")
            /\ measureLog' = <<>>
            /\ gmExecs' = 0
            /\ event_list' = <<>>
            /\ event_counts' = <<>>
            /\ observed' = <<>>
            /\ UNCHANGED <<execs, execModes>>
       ELSE \E el \in EventLists(measurements) :
            /\ event_list' = el
            /\ measureLog' = <<el>>
            /\ gmExecs' = 1
            /\ Executed(1)
            /\ \/ /\ Raise("SnippetError", "get_measurements")
                  /\ event_counts' = <<>>
                  /\ observed' = <<>>
               \/ \E obs \in [EventSet(measurements) -> CounterVals] :
                  /\ observed' = obs
                  /\ event_counts' = ZipCounts(el, [k \in 1..Len(el) |-> obs[el[k]]])
                  /\ pc' = "gm_loop"
                  /\ UNCHANGED <<error, raisedIn>>
    /\ UNCHANGED <<globals, inputs, runnerLocals, nsLocals, callLog, nsRets, gmRets, rendered>>

\* lines 88-95, m == "peak_memory": measure_peak_memory(line, local_ns)
get_measurements_peak ==
    /\ pc = "gm_loop"
    /\ platform = "linux"
    /\ keyIdx <= Len(measurements)
    /\ measurements[keyIdx] = "peak_memory"
    /\ \/ peak_memory_raises
       \/ \E p \in PeakVals : peak_memory_returns(p)
    /\ UNCHANGED <<DISABLE_JIT, gcEnabled, inputs, runnerLocals, nsLocals, event_list,
                   event_counts, observed, measureLog, deriveLog, callLog, nsRets,
                   gmRets, rendered>>

\* lines 88-95, any other kind: post_process(*[event_counts[ev] for ev in events])
get_measurements_derive ==
    /\ pc = "gm_loop"
    /\ platform = "linux"
    /\ keyIdx <= Len(measurements)
    /\ measurements[keyIdx] # "peak_memory"
    /\ LET m == measurements[keyIdx]
           args == GatherArgs(EventsOf(m), event_counts)
       IN  /\ deriveLog' = Append(deriveLog, [kind |-> m, args |-> args])
           /\ IF PostProcessRaises(m, args)
              THEN /\ Raise("ZeroDivisionError", "get_measurements")
                   /\ UNCHANGED <<gmResult, keyIdx>>
              ELSE /\ gmResult' = AppendValue(gmResult, PostProcess(m, args))
                   /\ keyIdx' = keyIdx + 1
                   /\ UNCHANGED control
    /\ UNCHANGED <<globals, inputs, runnerLocals, nsLocals, event_list, event_counts,
                   observed, measureLog, peakLog, gmExecs, history>>

-----------------------------------------------------------------------------
(* get_measurements, where there are no hardware counters *)

\* result = []
get_measurements_stub ==
    /\ pc = "gm_enter"
    /\ platform = "other"
    /\ gmResult' = <<>>
    /\ keyIdx' = 1
    /\ deriveLog' = <<>>
    /\ peakLog' = <<>>
    /\ measureLog' = <<>>
    /\ gmExecs' = 0
    /\ pc' = "gm_loop"
    /\ UNCHANGED <<globals, inputs, error, raisedIn, runnerLocals, nsLocals, event_list,
                   event_counts, observed, history>>

\* for key in measurement_keys: the peak, or "N/A, Linux only"
get_measurements_stub_key ==
    /\ pc = "gm_loop"
    /\ platform = "other"
    /\ keyIdx <= Len(measurements)
    /\ IF measurements[keyIdx] = "peak_memory"
       THEN \/ peak_memory_raises
            \/ \E p \in PeakVals : peak_memory_returns(p)
       ELSE /\ gmResult' = AppendValue(gmResult, NotAvailable)
            /\ keyIdx' = keyIdx + 1
            /\ UNCHANGED <<control, tracing, execs, execModes, gmExecs, peakLog>>
    /\ UNCHANGED <<DISABLE_JIT, gcEnabled, inputs, runnerLocals, nsLocals, event_list,
                   event_counts, observed, measureLog, deriveLog, callLog, nsRets,
                   gmRets, rendered>>

\* return result, of either implementation: the other locals end with the call
get_measurements_return ==
    /\ pc = "gm_loop"
    /\ keyIdx > Len(measurements)
    /\ gmRets' = Append(gmRets, [idx |-> lineIdx, val |-> gmResult])
    /\ Logged("get_measurements", "return")
    /\ pc' = IF entry = "get_measurements" THEN "done" ELSE "bl_extend"
    /\ event_list' = <<>> /\ event_counts' = <<>> /\ observed' = <<>>
    /\ measureLog' = <<>> /\ deriveLog' = <<>> /\ peakLog' = <<>>
    /\ gmExecs' = 0
    /\ UNCHANGED <<globals, inputs, error, raisedIn, runnerLocals, nsLocals, keyIdx,
                   gmResult, execs, execModes, nsRets, rendered>>


-----------------------------------------------------------------------------
(* _benchmark_lines *)

\* a new row: [the label, ns_per_iteration(line, local_ns)]
NewRow(l, ns) == [label |-> Label(l), elapsed |-> IntVal(ns), measurements |-> <<>>]

\* result.insert(0, row)
PrependRow(res, row) == <<row>> \o res

\* result.append(row)
AppendRow(res, row) == Append(res, row)

\* result[-1].extend(values)
ExtendLast(res, values) == [res EXCEPT ![Len(res)].measurements = @ \o values]

\* result = []; the lines of the cell
benchmark_lines_enter ==
    /\ pc = "bl_enter"
    /\ result' = <<>>
    /\ lines' = SplitLines(cell)
    /\ lineIdx' = 1
    /\ pc' = "bl_loop"
    /\ UNCHANGED <<globals, inputs, error, raisedIn, measurements, line, blReturned,
                   nsLocals, gmLocals, history>>

\* the head of the loop: strip the line, skip it if empty, else time it;
\* after the last line, return result
benchmark_lines_next ==
    /\ pc = "bl_loop"
    /\ IF lineIdx > Len(lines)
       THEN /\ blReturned' = TRUE
            /\ pc' = IF entry = "compare_timing" THEN "timing_post" ELSE "throughput_post"
            /\ UNCHANGED <<line, lineIdx, callLog>>
       ELSE IF Strip(lines[lineIdx]) = <<>>
       THEN /\ lineIdx' = lineIdx + 1
            /\ line' = Strip(lines[lineIdx])
            /\ UNCHANGED <<pc, blReturned, callLog>>
       ELSE /\ line' = Strip(lines[lineIdx])
            /\ Logged("ns_per_iteration", "call")
            /\ pc' = "ns_probe"
            /\ UNCHANGED <<lineIdx, blReturned>>
    /\ UNCHANGED <<globals, inputs, error, raisedIn, measurements, lines, result,
                   nsLocals, gmLocals, execs, execModes, nsRets, gmRets, rendered>>

\* result.append([label, elapsed]); if measurements: call get_measurements
benchmark_lines_row ==
    /\ pc = "bl_row"
    /\ result' = AppendRow(result, NewRow(line, nsResult))
    /\ IF measurements # <<>>
       THEN /\ Logged("get_measurements", "call")
            /\ pc' = "gm_enter"
            /\ UNCHANGED lineIdx
       ELSE /\ lineIdx' = lineIdx + 1
            /\ pc' = "bl_loop"
            /\ UNCHANGED callLog
    /\ UNCHANGED <<globals, inputs, error, raisedIn, measurements, lines, line,
                   blReturned, nsLocals, gmLocals, execs, execModes, nsRets, gmRets, rendered>>

\* result[-1].extend(get_measurements(...)); on to the next line
benchmark_lines_extend ==
    /\ pc = "bl_extend"
    /\ result' = ExtendLast(result, gmResult)
    /\ lineIdx' = lineIdx + 1
    /\ pc' = "bl_loop"
    /\ UNCHANGED <<globals, inputs, error, raisedIn, measurements, lines, line,
                   blReturned, nsLocals, gmLocals, history>>

-----------------------------------------------------------------------------
(* compare_timing, compare_throughput, _generate_benchmark_table *)

\* the flag left as the call found it
JitLeftAsFound == UNCHANGED DISABLE_JIT

\* numba_config.DISABLE_JIT = True
DisableJit == DISABLE_JIT' = TRUE

\* DISABLE_JIT = True; parse_argstring (which raises on a line it cannot
\* parse); measurements = the non-empty fields of --measure
magic_begin ==
    /\ pc = "start"
    /\ DisableJit
    /\ \/ /\ Raise("UsageError", "parse_argstring")
          /\ UNCHANGED measurements
       \/ /\ measurements' = KeepNonEmpty(measureArg)
          /\ pc' = "bl_enter"
          /\ UNCHANGED <<error, raisedIn>>
    /\ UNCHANGED <<gcEnabled, tracing, inputs, lines, lineIdx, line, result, blReturned,
                   nsLocals, gmLocals, history>>

compare_timing_begin == entry = "compare_timing" /\ magic_begin

compare_throughput_begin == entry = "compare_throughput" /\ magic_begin

\* round(row[1] / 1_000, 1), in tenths of a microsecond; where the exact
\* quotient lies halfway the float's binary expansion decides the direction
MicrosecondTenths(ns) ==
    IF ns % (Factor \div 10) * 2 = Factor \div 10
    THEN {ns \div (Factor \div 10), ns \div (Factor \div 10) + 1}
    ELSE {RoundHalfEven(ns, Factor \div 10)}

\* round(1_000_000_000.0 * num_items / row[1])
Throughput(num_items, ns) == RoundHalfEven(NsPerSecond * num_items, ns)

\* headers = ["Code", speed_column_title] + the titles of the kinds
Headers(speed, kinds) ==
    <<[text |-> <<"Code">>, arrow |-> "none"], speed>>
    \o [k \in 1..Len(kinds) |-> [text |-> <<MEASUREMENT_TITLES[kinds[k]].text>>,
                                 arrow |-> MEASUREMENT_TITLES[kinds[k]].arrow]]

\* the footer's messages
Footer(headers) ==
    (IF \E k \in 1..Len(headers) : headers[k].arrow = "lower"
     THEN <<"Lower numbers are better">> ELSE <<>>)
    \o (IF \E k \in 1..Len(headers) : headers[k].arrow = "higher"
        THEN <<"Higher numbers are better">> ELSE <<>>)

\* _generate_benchmark_table(rows, speed, measurements), then
\* numba_config.DISABLE_JIT = False: a kind without a title raises KeyError
generate_table_and_restore(rows, speed) ==
    IF \E k \in 1..Len(measurements) : measurements[k] \notin DOMAIN MEASUREMENT_TITLES
    THEN /\ Raise("KeyError", "_generate_benchmark_table")
         /\ UNCHANGED <<DISABLE_JIT, rendered>>
    ELSE /\ rendered' = [shown |-> TRUE,
                         headers |-> Headers(speed, measurements),
                         rows |-> rows,
                         footer |-> Footer(Headers(speed, measurements))]
         /\ DISABLE_JIT' = FALSE
         /\ pc' = "done"
         /\ UNCHANGED <<error, raisedIn>>

\* lines 168-175: every row's elapsed to microseconds, the table, the flag
compare_timing_finish ==
    /\ pc = "timing_post"
    /\ \E conv \in [1..Len(result) ->
                      UNION {MicrosecondTenths(result[k].elapsed.n) : k \in 1..Len(result)}] :
         /\ \A k \in 1..Len(result) : conv[k] \in MicrosecondTenths(result[k].elapsed.n)
         /\ result' = [k \in 1..Len(result) |-> [result[k] EXCEPT !.elapsed = TenthsVal(conv[k])]]
         /\ generate_table_and_restore(result', [text |-> <<"Elapsed microseconds">>, arrow |-> "lower"])
    /\ UNCHANGED <<gcEnabled, tracing, inputs, measurements, lines, lineIdx, line,
                   blReturned, nsLocals, gmLocals, execs, execModes, callLog, nsRets, gmRets>>

\* lines 191-199: --unit, every row's elapsed to a throughput (a row with
\* elapsed 0 raises ZeroDivisionError after the rows before it are rewritten),
\* the table, the flag
compare_throughput_finish ==
    /\ pc = "throughput_post"
    /\ \E unit \in UnitArgs :
         CASE unit.form = "None" ->
                /\ Raise("AttributeError", "compare_throughput")
                /\ UNCHANGED <<result, DISABLE_JIT, rendered>>
           [] unit.form = "nocolon" ->
                /\ Raise("ValueError", "compare_throughput")
                /\ UNCHANGED <<result, DISABLE_JIT, rendered>>
           [] unit.form = "ok" ->
                LET zeros == {k \in 1..Len(result) : result[k].elapsed.n = 0}
                    upto == IF zeros = {} THEN Len(result)
                            ELSE (CHOOSE k \in zeros : \A k2 \in zeros : k <= k2) - 1
                    conv(k) == IF k <= upto
                               THEN [result[k] EXCEPT
                                       !.elapsed = IntVal(Throughput(unit.num_items, result[k].elapsed.n))]
                               ELSE result[k]
                IN  /\ result' = [k \in 1..Len(result) |-> conv(k)]
                    /\ IF zeros # {}
                       THEN /\ Raise("ZeroDivisionError", "compare_throughput")
                            /\ UNCHANGED <<DISABLE_JIT, rendered>>
                       ELSE generate_table_and_restore(result',
                                [text |-> unit.name \o <<"/second">>, arrow |-> "higher"])
    /\ UNCHANGED <<gcEnabled, tracing, inputs, measurements, lines, lineIdx, line,
                   blReturned, nsLocals, gmLocals, execs, execModes, callLog, nsRets, gmRets>>

-----------------------------------------------------------------------------
(* The harness *)

Next ==
    \/ compare_timing_begin
    \/ compare_throughput_begin
    \/ benchmark_lines_enter
    \/ benchmark_lines_next
    \/ ns_probe
    \/ ns_iterations
    \/ ns_full
    \/ ns_return
    \/ benchmark_lines_row
    \/ get_measurements_measure
    \/ get_measurements_peak
    \/ get_measurements_derive
    \/ get_measurements_stub
    \/ get_measurements_stub_key
    \/ get_measurements_return
    \/ benchmark_lines_extend
    \/ compare_timing_finish
    \/ compare_throughput_finish

Spec == Init /\ [][Next]_vars


-----------------------------------------------------------------------------
(* What the claims speak of *)

\* the kinds the caller asked for
RequestedKinds == IF entry \in Magics THEN KeepNonEmpty(measureArg) ELSE measurements

\* control is inside ns_per_iteration, past gc.disable()
InsideNs == pc \in {"ns_iterations", "ns_full", "ns_return"}

\* control has come back from a call of ns_per_iteration
BackFromNs == ~InsideNs /\ (nsRets # <<>> \/ raisedIn = "ns_per_iteration")

\* the snippet executions of the whole request
NoExecutions == \A k \in 1..Len(execs) : execs[k] = 0

\* every requested kind is a hardware-counter kind of the catalog
HardwareKindsOnly ==
    \A k \in 1..Len(measurements) : measurements[k] \in Registered \ {"peak_memory"}

\* get_measurements has gone through its loop and is about to return
AboutToReturn == pc = "gm_loop" /\ keyIdx > Len(measurements)

\* the raw counters the requested kinds declare
DeclaredCounters ==
    {c \in UNION {Range(MEASUREMENTS[m].events) : m \in Registered} :
        \E k \in 1..Len(measurements) : c \in Range(MEASUREMENTS[measurements[k]].events)}

\* the lines of the cell that hold a snippet, by position
SnippetIdxs(ls) == SelectSeq([k \in 1..Len(ls) |-> k], LAMBDA k : Strip(ls[k]) # <<>>)

\* the calls the runner is to make for these snippets
RECURSIVE ExpectedCalls(_)
ExpectedCalls(idxs) ==
    IF idxs = <<>> THEN <<>>
    ELSE <<[fn |-> "ns_per_iteration", idx |-> Head(idxs), ev |-> "call"],
           [fn |-> "ns_per_iteration", idx |-> Head(idxs), ev |-> "return"]>>
         \o (IF RequestedKinds = <<>> THEN <<>>
             ELSE <<[fn |-> "get_measurements", idx |-> Head(idxs), ev |-> "call"],
                    [fn |-> "get_measurements", idx |-> Head(idxs), ev |-> "return"]>>)
         \o ExpectedCalls(Tail(idxs))

-----------------------------------------------------------------------------
(* The claims *)

\* C1: whenever control is back from a call of ns_per_iteration, by return
\* or by an exception of the probe or of the full run, the garbage collector
\* is enabled.
C1_GcRestoredOnEveryExit == BackFromNs => gcEnabled

\* C2: after a compare_timing or compare_throughput call that requested
\* kinds, however it ended, DISABLE_JIT has the value it had before the call.
C2_JitFlagRestored ==
    (entry \in Magics /\ pc \in {"done", "raised"} /\ RequestedKinds # <<>>)
        => DISABLE_JIT = preJIT

\* C3: a request with an unregistered kind executes the snippet zero times
\* and does not end normally.
C3_UnknownKindFailsBeforeExecution ==
    (\E k \in 1..Len(RequestedKinds) : RequestedKinds[k] \notin Registered)
        => /\ NoExecutions
           /\ pc # "done"

\* C4: for a kinds list of registered hardware-counter kinds, once the
\* counter pass is over the counter facility has been invoked exactly once,
\* with each distinct raw counter of the kinds exactly once, the snippet has
\* run exactly once, and at the return derive has been invoked once per
\* list entry, in order.
C4_CounterDedup ==
    (platform = "linux" /\ HardwareKindsOnly)
        => /\ (pc = "gm_loop" \/ (pc = "raised" /\ raisedIn = "get_measurements"))
                => /\ Len(measureLog) = 1
                   /\ Range(measureLog[1]) = DeclaredCounters
                   /\ Len(measureLog[1]) = Cardinality(DeclaredCounters)
                   /\ gmExecs = 1
           /\ pc = "gm_loop"
                => /\ Len(deriveLog) = keyIdx - 1
                   /\ \A i \in 1..Len(deriveLog) : deriveLog[i].kind = measurements[i]
           /\ AboutToReturn => Len(deriveLog) = Len(measurements)

\* C4 witness: a list that repeats a kind and holds two kinds sharing a raw
\* counter has been measured and derived.
C4_Witness ==
    /\ platform = "linux"
    /\ AboutToReturn
    /\ measurements = <<"memory_cache_miss", "memory_cache_refs", "memory_cache_miss">>
    /\ Len(deriveLog) = 3

\* C5: when get_measurements returns for registered kinds, its result has
\* one element per requested kind and the i-th is the value of the i-th
\* kind: its derivation of the observed counts, the peak measured for that
\* entry, or the not-available text where there are no counters.
C5_OrderPreserved ==
    (AboutToReturn /\ \A k \in 1..Len(measurements) : measurements[k] \in Registered)
        => /\ Len(gmResult) = Len(measurements)
           /\ \A i \in 1..Len(measurements) :
                IF measurements[i] = "peak_memory"
                THEN \E q \in 1..Len(peakLog) :
                        peakLog[q].idx = i /\ gmResult[i] = IntVal(peakLog[q].peak)
                ELSE IF platform = "linux"
                THEN gmResult[i] =
                        PostProcess(measurements[i],
                            [j \in 1..Len(MEASUREMENTS[measurements[i]].events) |->
                                observed[MEASUREMENTS[measurements[i]].events[j]]])
                ELSE gmResult[i] = NotAvailable

\* C5 witness: kinds [A, B, A] with peak_memory or another kind between,
\* returned with A's value differing from B's.
C5_Witness ==
    /\ platform = "linux"
    /\ AboutToReturn
    /\ Len(measurements) = 3
    /\ measurements[1] = "memory_cache_miss"
    /\ measurements[2] = "instructions"
    /\ measurements[3] = "memory_cache_miss"
    /\ gmResult[1] # gmResult[2]

\* C6: every value vector handed to a derivation has one entry per declared
\* raw counter of the kind, the j-th being what the counter facility
\* observed for the j-th declared counter, whatever the order of event_list.
C6_DeriveArgumentsAligned ==
    \A i \in 1..Len(deriveLog) :
        LET events == MEASUREMENTS[deriveLog[i].kind].events
        IN  /\ Len(deriveLog[i].args) = Len(events)
            /\ \A j \in 1..Len(events) : deriveLog[i].args[j] = observed[events[j]]

\* C6 witness: a two-counter kind derived from distinct counts after the
\* set was enumerated against the declared order.
C6_Witness ==
    /\ Len(deriveLog) >= 1
    /\ deriveLog[1].kind = "memory_cache_miss"
    /\ deriveLog[1].args[1] # deriveLog[1].args[2]
    /\ Len(event_list) >= 2
    /\ event_list[1] = "CACHE_MISSES"

\* C7: a call of ns_per_iteration whose snippet does not raise completes,
\* and with a result >= 0.
C7_AlwaysReturnsNonNegative ==
    /\ ~(pc = "raised" /\ raisedIn = "ns_per_iteration" /\ error # "SnippetError")
    /\ pc = "ns_return" => nsResult >= 0

\* C8: the repetition count is 10 when estimated_ns > 10_000_000 and
\* max(10_000_000 // estimated_ns, 100) otherwise; the full run executes the
\* snippet that many times and the result is its total // iterations.
C8_RepetitionPolicy ==
    /\ pc \in {"ns_iterations", "ns_full", "ns_return"}
        => estimated_ns = probeTotal \div 10
    /\ pc \in {"ns_full", "ns_return"}
        => /\ estimated_ns > 10000000 => iterations = 10
           /\ estimated_ns <= 10000000
                => iterations = (IF 10000000 \div estimated_ns >= 100
                                 THEN 10000000 \div estimated_ns ELSE 100)
           /\ estimated_ns = 10000000 => iterations = 100
           /\ estimated_ns \in 1..100000 => iterations = 10000000 \div estimated_ns
    /\ pc = "ns_return"
        => /\ fullExecs = iterations
           /\ nsResult = fullTotal \div iterations

\* C8 witness: a probe of exactly 10_000_000 ns per iteration led to a full
\* run of 100 executions.
C8_Witness ==
    /\ pc = "ns_return"
    /\ estimated_ns = 10000000
    /\ fullExecs = 100

\* C9: when _benchmark_lines returns, there is one row per snippet in input
\* order, each of the snippet's label, the calibrator's result for it and the
\* aggregator's result for it (one measurement per requested kind), and the
\* calls made are, snippet by snippet, the calibrator's and then, if kinds
\* were requested, the aggregator's.
C9_RunnerRows ==
    blReturned
        => LET ls == SplitLines(cell)
               idxs == SnippetIdxs(ls)
           IN  /\ Len(result) = Len(idxs)
               /\ callLog = ExpectedCalls(idxs)
               /\ Len(nsRets) = Len(idxs)
               /\ Len(gmRets) = (IF RequestedKinds = <<>> THEN 0 ELSE Len(idxs))
               /\ pc \in {"timing_post", "throughput_post"}
                    => \A k \in 1..Len(result) :
                         /\ result[k].label = Label(Strip(ls[idxs[k]]))
                         /\ nsRets[k].idx = idxs[k]
                         /\ result[k].elapsed = IntVal(nsRets[k].val)
                         /\ Len(result[k].measurements) = Len(RequestedKinds)
                         /\ RequestedKinds # <<>>
                              => /\ gmRets[k].idx = idxs[k]
                                 /\ result[k].measurements = gmRets[k].val

\* C9 witness: the runner returned two rows of different snippets with
\* measurements.
C9_Witness ==
    /\ blReturned
    /\ pc \in {"timing_post", "throughput_post"}
    /\ Len(result) = 2
    /\ result[1].label # result[2].label
    /\ Len(result[1].measurements) = 2

\* C10: once a snippet has raised in a magic call, the call has ended in
\* that error, nothing more happens (no retry, no later snippet), no rows
\* were returned by the runner and nothing was handed to the renderer.
C10_SnippetFailureAbortsBatch ==
    (entry \in Magics /\ error = "SnippetError")
        => /\ pc = "raised"
           /\ raisedIn \in {"ns_per_iteration", "get_measurements", "measure_peak_memory"}
           /\ ~ENABLED Next
           /\ ~blReturned
           /\ rendered = NoTable
           /\ \A j \in 1..Len(execs) : j > lineIdx => execs[j] = 0
           /\ Cardinality({q \in 1..Len(callLog) :
                  callLog[q].idx = lineIdx /\ callLog[q].ev = "call"
                  /\ callLog[q].fn = "ns_per_iteration"}) = 1

\* C10 witness: the second snippet of a cell raised during aggregation,
\* after the first had its row.
C10_Witness ==
    /\ entry \in Magics
    /\ error = "SnippetError"
    /\ raisedIn \in {"get_measurements", "measure_peak_memory"}
    /\ Len(result) = 2
    /\ Len(execs) = 2


\* the kinds list holds peak_memory and nothing else
PeakMemoryOnly ==
    /\ measurements # <<>>
    /\ \A k \in 1..Len(measurements) : measurements[k] = "peak_memory"

\* C11: for a kinds list of peak_memory entries only, get_measurements does
\* not invoke the counter facility, and the snippet has run once per
\* peak_memory entry gone through and not otherwise.
C11_PeakMemoryOnlyNoCounterPass ==
    (PeakMemoryOnly /\ pc = "gm_loop")
        => /\ measureLog = <<>>
           /\ gmExecs = keyIdx - 1

\* C13: once measure_peak_memory has been left, by return or by the
\* snippet's exception, tracemalloc is not tracing.
C13_TracingStopped ==
    (peakLog # <<>> \/ raisedIn = "measure_peak_memory") => ~tracing


\* C12: in a compare_timing or compare_throughput call every execution of a
\* snippet, of either phase, happens with DISABLE_JIT True, and from the
\* first execution until the call ends or the table is out the flag stays
\* True.
C12_SameExecutionMode ==
    entry \in Magics
        => /\ execModes \subseteq {TRUE}
           /\ (~NoExecutions /\ pc # "done") => DISABLE_JIT = TRUE

\* C12 witness: two snippets went through the calibrator, the counter pass
\* and the peak-memory pass in a call that found the flag False.
C12_Witness ==
    /\ entry \in Magics
    /\ preJIT = FALSE
    /\ blReturned
    /\ Len(result) = 2
    /\ platform = "linux"
    /\ measurements = <<"peak_memory", "branches">>
    /\ \A k \in 1..Len(execs) : execs[k] > ProbeNumber + 2
    /\ execModes = {TRUE}

=============================================================================
